---- MODULE Spec2Model ----
(***************************************************************************)
(* Model of the customer360 PostgreSQL -> BigQuery migration scripts:      *)
(*   migration_scripts/extract_from_postgres.py   (Extractor)              *)
(*   migration_scripts/load_to_bigquery.py        (Loader)                 *)
(*   migration_scripts/reconcile.py               (Reconciliation Engine)  *)
(* One behaviour is one run of one of the three scripts: Init chooses the  *)
(* script (prog) and its command line (args); the actions are the steps of *)
(* that script's main() and of the functions it calls.                     *)
(*                                                                         *)
(* Python values are modelled as follows.                                  *)
(*   - None / an unassigned local        : <<>>      (Some(x) is <<x>>)    *)
(*   - a dict                            : a function on its keys          *)
(*   - a list                            : a sequence                      *)
(*   - the result of a call that may raise: a record                       *)
(*        [exc, msg, val]  with exc = "none" (returned val[1]),            *)
(*        exc = "Exception" (an ordinary error, e.g. a failed query) or    *)
(*        exc = "SystemExit" (sys.exit(1) inside a connection helper).     *)
(***************************************************************************)
EXTENDS Integers, Sequences, FiniteSets, TLC

VARIABLES
    prog,            \* which script runs: "reconcile", "extract" or "load"
    args,            \* the parsed command line (argparse namespace)
    pc,              \* position in the script
    exit_code,       \* <<>> while running, <<c>> once the process has exited
    uncaught,        \* <<>> or <<kind>>: the exception that ended the process
    todo,            \* the items main() still has to iterate over
    results_list,    \* reconcile.main: results_list
    rt_results,      \* reconcile_table: its local dict `results`
    pg_count,        \* reconcile_table local (unassigned = <<>>)
    bq_count,        \* reconcile_table local
    diff,            \* reconcile_table local: the logged row difference
    pg_columns,      \* reconcile_table local
    bq_columns,      \* reconcile_table local
    pg_rows,         \* reconcile_table local (sample)
    bq_rows,         \* reconcile_table local (sample)
    results,         \* extract / load main: results (list of outcomes)
    exports,         \* data/exports: artifact path -> None or Some(file)
    export_dirs,     \* data/exports: the schema directories that exist
    bq_datasets,     \* BigQuery: the datasets that exist
    bq_tables,       \* BigQuery: table reference -> [num_rows, schema_fields]
    schemas_todo,    \* load main: the schemas still to pass to load_schema_csvs
    schema_results,  \* load_schema_csvs: its local list `results`
    pg_tables,       \* PostgreSQL: the (schema, table) pairs that exist
    scanned,         \* PostgreSQL: the tables a SELECT * has been issued on
    jobs,            \* BigQuery: the load jobs submitted, in order
    table_obj,       \* validate_table local: the table client.get_table returned
    actual_rows,     \* validate_table local
    vchecks,         \* validate_table local: its dict `checks`
    verdict,         \* validate_table: <<>> or <<b>>, the boolean it returned
    conn             \* the source connection of the last source operation that
                     \* finished: <<>> (none was opened), <<"open">>, <<"closed">>

vars == <<prog, args, pc, exit_code, uncaught, todo, results_list, rt_results,
          pg_count, bq_count, diff, pg_columns, bq_columns, pg_rows, bq_rows,
          results, exports, export_dirs, bq_datasets, bq_tables,
          schemas_todo, schema_results, pg_tables, scanned, jobs,
          table_obj, actual_rows, vchecks, verdict, conn>>

\* The staging store and the warehouse.
stores == <<exports, export_dirs, bq_datasets, bq_tables>>

load_locals == <<schemas_todo, schema_results>>

validate_locals == <<table_obj, actual_rows, vchecks, verdict>>

\* The source database as the Extractor sees it.
source == <<pg_tables, scanned>>

rt_locals == <<pg_count, bq_count, diff, pg_columns, bq_columns, pg_rows, bq_rows>>

(***************************************************************************)
(* Bounds of the model.                                                    *)
(***************************************************************************)
\* Row counts read from either system range over 0..MaxCount.
MaxCount == 1

\* Column names, and the column lists a table can have (names are unique
\* within a table on both systems).
Names == {"a", "b"}

\* Rows a LIMIT 3 sample can return (abstracted to one token per result).
SampleRows == {"rows_x", "rows_y"}

Counts == 0..MaxCount

ColumnLists ==
    {<<>>} \cup {<<n>> : n \in Names}
           \cup {<<n, m>> : <<n, m>> \in {p \in Names \X Names : p[1] # p[2]}}

(***************************************************************************)
(* Python helpers.                                                         *)
(***************************************************************************)
None == <<>>
Some(x) == <<x>>

\* dict.get(key, default)
Get(d, key, default) == IF key \in DOMAIN d THEN d[key] ELSE default

\* d[key] = value
Put(d, key, value) == (key :> value) @@ d

\* set(list)
ToSet(list) == {list[i] : i \in DOMAIN list}

\* Results of a call.
Ret(v) == [exc |-> "none", msg |-> "", val |-> Some(v)]
Raise(m) == [exc |-> "Exception", msg |-> m, val |-> None]
SysExit == [exc |-> "SystemExit", msg |-> "1", val |-> None]
Raised(r) == r.exc # "none"

\* `except Exception`: SystemExit derives from BaseException, not Exception.
ExceptException(kind) == kind = "Exception"

(***************************************************************************)
(* Source connections.                                                     *)
(***************************************************************************)
\* The state of an operation's connection when the operation has finished.
\* how = "none": psycopg2.connect failed, there is no connection;
\* how = "closed": the operation called conn.close();
\* how = "unclosed": the operation ended without calling conn.close(): the
\* connection is open unless the interpreter has already finalised the
\* object, which the code does not control.
ConnAfter(how) ==
    CASE how = "none" -> {None}
      [] how = "closed" -> {Some("closed")}
      [] OTHER -> {Some("open"), Some("closed")}

\* get_postgres_row_count, get_postgres_schema, get_postgres_sample:
\*   conn = get_postgres_connection(); cursor = conn.cursor()
\*   cursor.execute(query); ...; cursor.close(); conn.close(); return ...
\* conn.close() is reached only when nothing before it raised.
ConnAfterRead(r) ==
    ConnAfter(IF ~Raised(r) THEN "closed"
              ELSE IF ExceptException(r.exc) THEN "unclosed" ELSE "none")

(***************************************************************************)
(* reconcile.py: connectors.                                               *)
(***************************************************************************)
\* get_postgres_connection(): psycopg2.connect, or sys.exit(1) when it fails.
get_postgres_connection == {SysExit, Ret("conn")}

\* get_bigquery_client(): bigquery.Client, or sys.exit(1) when it fails.
get_bigquery_client == {SysExit, Ret("client")}

\* What a call made through a connection helper can do besides returning:
\* leave the process (the helper failed) or raise (the query failed).
\* (str(e) is abstracted to one message.)
ViaPostgres == {r \in get_postgres_connection : Raised(r)} \cup {Raise("query failed")}
ViaBigQuery == {r \in get_bigquery_client : Raised(r)} \cup {Raise("query failed")}

get_postgres_row_count == ViaPostgres \cup {Ret(n) : n \in Counts}
get_bigquery_row_count == ViaBigQuery \cup {Ret(n) : n \in Counts}

\* The schema readers return one dict per column; reconcile_table reads only
\* its 'name'.
SchemaInfo(cols) == [i \in DOMAIN cols |-> [name |-> cols[i]]]
get_postgres_schema == ViaPostgres \cup {Ret(SchemaInfo(c)) : c \in ColumnLists}
get_bigquery_schema == ViaBigQuery \cup {Ret(SchemaInfo(c)) : c \in ColumnLists}

get_postgres_sample == ViaPostgres \cup {Ret(r) : r \in SampleRows}
get_bigquery_sample == ViaBigQuery \cup {Ret(r) : r \in SampleRows}

(***************************************************************************)
(* reconcile.py: reconcile_table.                                          *)
(***************************************************************************)
\* match = pg_count == bq_count; results['checks']['row_count'] = {...}
RowCountEntry(pg, bq) == [postgres |-> pg, bigquery |-> bq, match |-> pg = bq]

\* Faulty variant of RowCountDiff: the difference taken the other way round.
RowCountDiffSwapped(pg, bq) == pg - bq

\* diff = bq_count - pg_count
RowCountDiff(pg, bq) == bq - pg

\* Faulty variant of SchemaEntry: match compares the name sets, not the counts.
SchemaEntrySetEquality(pgc, bqc) ==
    [postgres_columns |-> Len(pgc),
     bigquery_columns |-> Len(bqc),
     match            |-> ToSet(pgc) = ToSet(bqc),
     missing_in_bq    |-> ToSet(pgc) \ ToSet(bqc),
     extra_in_bq      |-> ToSet(bqc) \ ToSet(pgc)]

\* Faulty variant of SchemaEntry: the two set differences exchanged.
SchemaEntrySwapped(pgc, bqc) ==
    [postgres_columns |-> Len(pgc),
     bigquery_columns |-> Len(bqc),
     match            |-> Len(pgc) = Len(bqc),
     missing_in_bq    |-> ToSet(bqc) \ ToSet(pgc),
     extra_in_bq      |-> ToSet(pgc) \ ToSet(bqc)]

\* results['checks']['schema'] = {...}; list(set) has no order: kept as sets.
SchemaEntry(pgc, bqc) ==
    [postgres_columns |-> Len(pgc),
     bigquery_columns |-> Len(bqc),
     match            |-> Len(pgc) = Len(bqc),
     missing_in_bq    |-> ToSet(pgc) \ ToSet(bqc),
     extra_in_bq      |-> ToSet(bqc) \ ToSet(pgc)]

SampleEntry == [retrieved |-> TRUE]

\* Faulty variant of ErrorEntry: the error entry also carries a match flag.
ErrorEntryWithMatch(r) == [error |-> r.msg, match |-> FALSE]

\* {'error': str(e)}
ErrorEntry(r) == [error |-> r.msg]

\* Faulty variant of AllPassed: the `if 'match' in check` filter dropped.
AllPassedNoFilter(checks) ==
    \A k \in DOMAIN checks : Get(checks[k], "match", FALSE)

\* Faulty variant of AllPassed: an entry with an error field fails the verdict.
AllPassedErrorsFail(checks) ==
    \A k \in DOMAIN checks :
        /\ "error" \notin DOMAIN checks[k]
        /\ "match" \in DOMAIN checks[k] => Get(checks[k], "match", FALSE)

\* all(check.get('match', False) for check in checks.values() if 'match' in check)
AllPassed(checks) ==
    \A k \in DOMAIN checks :
        "match" \in DOMAIN checks[k] => Get(checks[k], "match", FALSE)

OverallStatus(checks) == IF AllPassed(checks) THEN "PASS" ELSE "FAIL"

\* The process ends on exception r: SystemExit(1) from sys.exit(1), or an
\* exception nothing catches (traceback, status 1).
Propagate(r) ==
    /\ pc' = "exited"
    /\ exit_code' = Some(1)
    /\ uncaught' = Some(r.exc)

\* Exception r leaves reconcile_table: its frame (results and the other
\* locals) is gone, and nothing in main catches r.
LeaveReconcileTable(r) ==
    /\ Propagate(r)
    /\ rt_results' = <<>>
    /\ pg_count' = None /\ bq_count' = None /\ diff' = None
    /\ pg_columns' = None /\ bq_columns' = None
    /\ pg_rows' = None /\ bq_rows' = None

\* Faulty variant of TryExcept: the checks share one try block, so an exception in
\* one of them skips the checks after it.
TryExceptSkipRest(name, r, entry, next, locals) ==
    IF Raised(r) /\ ~ExceptException(r.exc)
    THEN LeaveReconcileTable(r)
    ELSE /\ rt_results' =
              [rt_results EXCEPT
                  !.checks = Put(@, name, IF Raised(r) THEN ErrorEntry(r) ELSE entry)]
         /\ pc' = (IF Raised(r) THEN "summary" ELSE next)
         /\ locals
         /\ UNCHANGED <<exit_code, uncaught>>

\* One try/except Exception block of reconcile_table. r is the call that
\* ended the try body: the first one that did not return, or the last one.
\*   try: ... results['checks'][name] = entry
\*   except Exception as e: results['checks'][name] = {'error': str(e)}
\* Either way control reaches the next block; an exception the clause does
\* not catch leaves the function.
TryExcept(name, r, entry, next, locals) ==
    IF Raised(r) /\ ~ExceptException(r.exc)
    THEN LeaveReconcileTable(r)
    ELSE /\ rt_results' =
              [rt_results EXCEPT
                  !.checks = Put(@, name, IF Raised(r) THEN ErrorEntry(r) ELSE entry)]
         /\ pc' = next
         /\ locals
         /\ UNCHANGED <<exit_code, uncaught>>

\* 1. ROW COUNT
RowCountCheck ==
    /\ prog = "reconcile" /\ pc = "row_count"
    /\ \E r1 \in get_postgres_row_count, r2 \in get_bigquery_row_count :
         (conn' \in ConnAfterRead(r1)) /\
         LET r == IF Raised(r1) THEN r1 ELSE r2
             m == IF Raised(r) THEN FALSE ELSE r1.val[1] = r2.val[1]
         IN TryExcept("row_count", r,
                      IF Raised(r) THEN <<>> ELSE RowCountEntry(r1.val[1], r2.val[1]),
                      "schema",
                      /\ pg_count' = r1.val
                      /\ bq_count' = (IF Raised(r1) THEN None ELSE r2.val)
                      /\ diff' = (IF Raised(r) \/ m THEN None
                                  ELSE Some(RowCountDiff(r1.val[1], r2.val[1])))
                      /\ UNCHANGED <<pg_columns, bq_columns, pg_rows, bq_rows>>)
    /\ UNCHANGED <<prog, args, todo, results_list, results>>
    /\ UNCHANGED stores
    /\ UNCHANGED load_locals
    /\ UNCHANGED source
    /\ UNCHANGED jobs
    /\ UNCHANGED validate_locals

\* [col['name'] for col in schema_info]
ColumnNames(info) == [i \in DOMAIN info |-> info[i].name]

\* 2. SCHEMA COMPARISON
SchemaCheck ==
    /\ prog = "reconcile" /\ pc = "schema"
    /\ \E r1 \in get_postgres_schema, r2 \in get_bigquery_schema :
         (conn' \in ConnAfterRead(r1)) /\
         LET r == IF Raised(r1) THEN r1 ELSE r2
         IN TryExcept("schema", r,
                      IF Raised(r) THEN <<>>
                      ELSE SchemaEntry(ColumnNames(r1.val[1]), ColumnNames(r2.val[1])),
                      "sample",
                      /\ pg_columns' = (IF Raised(r) THEN None
                                        ELSE Some(ColumnNames(r1.val[1])))
                      /\ bq_columns' = (IF Raised(r) THEN None
                                        ELSE Some(ColumnNames(r2.val[1])))
                      /\ UNCHANGED <<pg_count, bq_count, diff, pg_rows, bq_rows>>)
    /\ UNCHANGED <<prog, args, todo, results_list, results>>
    /\ UNCHANGED stores
    /\ UNCHANGED load_locals
    /\ UNCHANGED source
    /\ UNCHANGED jobs
    /\ UNCHANGED validate_locals

\* 3. SAMPLE DATA
SampleCheck ==
    /\ prog = "reconcile" /\ pc = "sample"
    /\ \E r1 \in get_postgres_sample, r2 \in get_bigquery_sample :
         (conn' \in ConnAfterRead(r1)) /\
         LET r == IF Raised(r1) THEN r1 ELSE r2
         IN TryExcept("sample_data", r, SampleEntry, "summary",
                      /\ pg_rows' = r1.val
                      /\ bq_rows' = (IF Raised(r1) THEN None ELSE r2.val)
                      /\ UNCHANGED <<pg_count, bq_count, diff, pg_columns, bq_columns>>)
    /\ UNCHANGED <<prog, args, todo, results_list, results>>
    /\ UNCHANGED stores
    /\ UNCHANGED load_locals
    /\ UNCHANGED source
    /\ UNCHANGED jobs
    /\ UNCHANGED validate_locals

\* SUMMARY: results['overall_status'] = 'PASS' | 'FAIL'; return results; and
\* in main: results_list.append(result). The locals die with the call.
Summary ==
    /\ prog = "reconcile" /\ pc = "summary"
    /\ results_list' =
         Append(results_list,
                Put(rt_results, "overall_status", OverallStatus(rt_results.checks)))
    /\ rt_results' = <<>>
    /\ pg_count' = None /\ bq_count' = None /\ diff' = None
    /\ pg_columns' = None /\ bq_columns' = None
    /\ pg_rows' = None /\ bq_rows' = None
    /\ pc' = "loop"
    /\ UNCHANGED <<prog, args, exit_code, uncaught, todo, results>>
    /\ UNCHANGED stores
    /\ UNCHANGED load_locals
    /\ UNCHANGED source
    /\ UNCHANGED jobs
    /\ UNCHANGED validate_locals
    /\ UNCHANGED conn

(***************************************************************************)
(* reconcile.py: main.                                                     *)
(***************************************************************************)
\* A command-line name is the sequence of its '.'-separated parts:
\* raw.csv_customers is <<"raw", "csv_customers">>.
HasDot(name) == Len(name) > 1

\* TABLE_MAPPINGS, in iteration order. The source configures the first pair
\* and leaves room for more ("Add more mappings as you migrate more tables");
\* a second pair is configured here so that the batch has a second table.
TABLE_MAPPINGS ==
    <<[pg |-> <<"raw", "csv_customers">>, bq |-> <<"raw_data", "csv_customers">>],
      [pg |-> <<"raw", "csv_orders">>, bq |-> <<"raw_data", "csv_orders">>]>>

\* Command lines of reconcile.py: no selection, --table alone, a single pair
\* (well-formed, or with a name that has no '.'), --all, and a pair with --all.
ReconcileArgs ==
    LET t == Some(<<"raw", "csv_customers">>)
        b == Some(<<"raw_data", "csv_customers">>)
    IN {[table |-> None, bq_table |-> None, all |-> FALSE],
        [table |-> t, bq_table |-> None, all |-> FALSE],
        [table |-> t, bq_table |-> b, all |-> FALSE],
        [table |-> Some(<<"csv_customers">>), bq_table |-> b, all |-> FALSE],
        [table |-> None, bq_table |-> None, all |-> TRUE],
        [table |-> t, bq_table |-> b, all |-> TRUE]}

\* if args.table and args.bq_table: ... elif args.all: ... else: print_help
ReconcileMain ==
    /\ prog = "reconcile" /\ pc = "main"
    /\ IF args.table # None /\ args.bq_table # None
       THEN IF HasDot(args.table[1]) /\ HasDot(args.bq_table[1])
            THEN /\ todo' = <<[pg |-> args.table[1], bq |-> args.bq_table[1]]>>
                 /\ pc' = "loop"
                 /\ UNCHANGED <<exit_code, uncaught>>
            ELSE \* pg_schema, pg_table = args.table.split('.', 1): ValueError
                 /\ Propagate(Raise("ValueError"))
                 /\ UNCHANGED todo
       ELSE IF args.all
       THEN /\ todo' = TABLE_MAPPINGS
            /\ pc' = "loop"
            /\ UNCHANGED <<exit_code, uncaught>>
       ELSE \* parser.print_help(); sys.exit(0)
            /\ pc' = "exited"
            /\ exit_code' = Some(0)
            /\ UNCHANGED <<uncaught, todo>>
    /\ UNCHANGED <<prog, args, results_list, rt_results, results>>
    /\ UNCHANGED stores
    /\ UNCHANGED load_locals
    /\ UNCHANGED rt_locals
    /\ UNCHANGED source
    /\ UNCHANGED jobs
    /\ UNCHANGED validate_locals
    /\ UNCHANGED conn

\* result = reconcile_table(pg_schema, pg_table, bq_dataset, bq_table, logger)
ReconcileTable ==
    /\ prog = "reconcile" /\ pc = "loop" /\ todo # <<>>
    /\ rt_results' = [pg_table |-> Head(todo).pg, bq_table |-> Head(todo).bq,
                      checks |-> <<>>]
    /\ todo' = Tail(todo)
    /\ pc' = "row_count"
    /\ UNCHANGED <<prog, args, exit_code, uncaught, results_list, results>>
    /\ UNCHANGED stores
    /\ UNCHANGED load_locals
    /\ UNCHANGED rt_locals
    /\ UNCHANGED source
    /\ UNCHANGED jobs
    /\ UNCHANGED validate_locals
    /\ UNCHANGED conn

\* sum(1 for r in results_list if r['overall_status'] == status)
CountStatus(list, status) ==
    Cardinality({i \in DOMAIN list : list[i]["overall_status"] = status})

\* exit status of reconcile.main: 0 if failed == 0 else 1
ReconcileExit(list) == IF CountStatus(list, "FAIL") = 0 THEN 0 ELSE 1

\* FINAL SUMMARY
FinalSummary ==
    /\ prog = "reconcile" /\ pc = "loop" /\ todo = <<>>
    /\ pc' = "exited"
    /\ exit_code' = Some(ReconcileExit(results_list))
    /\ UNCHANGED <<prog, args, uncaught, todo, results_list, rt_results, results>>
    /\ UNCHANGED stores
    /\ UNCHANGED load_locals
    /\ UNCHANGED rt_locals
    /\ UNCHANGED source
    /\ UNCHANGED jobs
    /\ UNCHANGED validate_locals
    /\ UNCHANGED conn

(***************************************************************************)
(* extract_from_postgres.py.                                               *)
(***************************************************************************)
\* TABLES_TO_EXTRACT, cut down to two schemas and three tables (the source
\* configures three schemas with ten tables), and the order of its keys.
TABLES_TO_EXTRACT ==
    [raw |-> <<"csv_customers", "csv_orders">>,
     staging |-> <<"stg_csv_customers">>]
SchemaOrder == <<"raw", "staging">>

\* The tables of one schema, as the (schema, table) pairs main() passes to
\* extract_table, in configuration order.
SchemaItems(schema) ==
    [i \in DOMAIN TABLES_TO_EXTRACT[schema] |->
        [schema |-> schema, table |-> TABLES_TO_EXTRACT[schema][i]]]

\* for schema, tables in TABLES_TO_EXTRACT.items(): for table in tables: ...
RECURSIVE AllItemsFrom(_)
AllItemsFrom(k) ==
    IF k > Len(SchemaOrder) THEN <<>>
    ELSE SchemaItems(SchemaOrder[k]) \o AllItemsFrom(k + 1)
AllItems == AllItemsFrom(1)

\* f"{schema}_{table}" on strings given as sequences (of characters, or of
\* longer pieces that are never split).
ArtifactStem(schema, table) == schema \o <<"_">> \o table

\* output_file = Path(output_dir) / f"{schema}_{table}.csv": the directory
\* and the file's stem; a configured schema or table name is one piece.
ArtifactPath(schema, table) ==
    [dir |-> schema, stem |-> ArtifactStem(<<schema>>, <<table>>)]

ArtifactPaths == {ArtifactPath(AllItems[i].schema, AllItems[i].table) : i \in DOMAIN AllItems}

\* What pd.read_sql can return: a frame of n rows and c columns.
DataFrames == [rows : Counts, cols : 1..Cardinality(Names)]

\* A CSV file: its data rows and columns, whether the write that produced it
\* ran to its end, and whether it holds a row with the wrong number of fields.
CompleteFile(df) == [rows |-> df.rows, cols |-> df.cols, complete |-> TRUE, bad |-> FALSE]
PartialFiles(df) ==
    {[rows |-> 0, cols |-> df.cols, complete |-> FALSE, bad |-> b] : b \in BOOLEAN}

\* The artifact an earlier, successful extraction left behind.
PriorFile == CompleteFile([rows |-> MaxCount, cols |-> 1])

\* get_postgres_connection() of the Extractor: sys.exit(1) on psycopg2.Error.
extract_get_postgres_connection == {SysExit, Ret("conn")}

\* Faulty variant of get_table_info: the existence test left out.
GetTableInfoNoExistsTest(exists) == {Raise("query failed"), Ret(Some("info"))}

\* get_table_info(conn, schema, table): None when the table does not exist,
\* else its counts (which extract_table only logs); a query may raise.
get_table_info(exists) ==
    {Raise("query failed"), Ret(IF exists THEN Some("info") ELSE None)}

\* pd.read_sql(query, conn)
read_sql == {Raise("read failed")} \cup {Ret(df) : df \in DataFrames}

ExtractFailure(schema, table, error) ==
    [success |-> FALSE, schema |-> schema, table |-> table, error |-> error]

\* (file_size_bytes and file_size_mb are left out: they follow from the file.)
ExtractSuccess(schema, table, df, output_file) ==
    [success |-> TRUE, schema |-> schema, table |-> table,
     row_count |-> df.rows, col_count |-> df.cols, file_path |-> output_file]

\* The ways the try body of extract_table can run: `end` is the call that
\* raised, or the return value; `write` is what df.to_csv left at output_file
\* (None: the file was not touched); `scan` tells whether a query on the
\* table itself (the COUNT(*) of get_table_info, the SELECT * of read_sql)
\* was issued; `conn` tells whether conn.close() (reached only at the end of
\* a successful extraction) was called.
extract_table_runs(schema, table, output_file) ==
    LET Stop(r, sc, cn) == [end |-> r, write |-> None, scan |-> sc, conn |-> cn]
        exists == [schema |-> schema, table |-> table] \in pg_tables
        infos == get_table_info(exists)
        found == \E i \in infos : ~Raised(i) /\ i.val[1] # None
    IN    {Stop(c, FALSE, "none") :
              c \in {x \in extract_get_postgres_connection : Raised(x)}}
     \cup {Stop(i, sc, "unclosed") : i \in {x \in infos : Raised(x)}, sc \in {FALSE, found}}
     \cup (IF ~found
           THEN {Stop(Ret(ExtractFailure(schema, table, "Table does not exist")),
                      FALSE, "unclosed")}
           ELSE      {Stop(d, TRUE, "unclosed") : d \in {x \in read_sql : Raised(x)}}
                \cup {[end |-> Raise("write failed"), write |-> w, scan |-> TRUE,
                       conn |-> "unclosed"] :
                         w \in {None} \cup {Some(f) : f \in UNION {PartialFiles(df) : df \in DataFrames}}}
                \cup {[end |-> Ret(ExtractSuccess(schema, table, df, output_file)),
                       write |-> Some(CompleteFile(df)), scan |-> TRUE,
                       conn |-> "closed"] : df \in DataFrames})

\* The outcome extract_table returns for a run its except clause caught or
\* that returned by itself.
ExtractOutcome(schema, table, end) ==
    IF Raised(end) THEN ExtractFailure(schema, table, end.msg) ELSE end.val[1]

\* result = extract_table(schema, table, logger=logger); results.append(result)
ExtractTable ==
    /\ prog = "extract" /\ pc = "loop" /\ todo # <<>>
    /\ LET schema == Head(todo).schema
           table == Head(todo).table
           output_file == ArtifactPath(schema, table)
       IN /\ todo' = Tail(todo)
          /\ export_dirs' = export_dirs \cup {schema}
          /\ \E run \in extract_table_runs(schema, table, output_file) :
               /\ exports' = [exports EXCEPT ![output_file] =
                                 IF run.write = None THEN @ ELSE run.write]
               /\ conn' \in ConnAfter(run.conn)
               /\ scanned' = IF run.scan
                             THEN scanned \cup {[schema |-> schema, table |-> table]}
                             ELSE scanned
               /\ IF Raised(run.end) /\ ~ExceptException(run.end.exc)
                  THEN /\ Propagate(run.end)
                       /\ UNCHANGED results
                  ELSE /\ results' = Append(results, ExtractOutcome(schema, table, run.end))
                       /\ UNCHANGED <<pc, exit_code, uncaught>>
    /\ UNCHANGED <<prog, args, results_list, rt_results, bq_datasets, bq_tables>>
    /\ UNCHANGED rt_locals
    /\ UNCHANGED load_locals
    /\ UNCHANGED <<pg_tables, jobs>>
    /\ UNCHANGED validate_locals

\* Command lines of extract_from_postgres.py: nothing, --all (alone and with
\* --schema), --schema (known and unknown), --table (with and without '.').
ExtractArgs ==
    LET A(t, a, sc) == [table |-> t, all |-> a, schema |-> sc]
    IN {A(None, FALSE, None),
        A(None, TRUE, None),
        A(None, TRUE, Some("staging")),
        A(None, FALSE, Some("raw")),
        A(None, FALSE, Some("nope")),
        A(Some(<<"raw", "csv_customers">>), FALSE, None),
        A(Some(<<"raw", "csv_customers">>), FALSE, Some("staging")),
        A(Some(<<"csv_customers">>), FALSE, None)}

\* if args.all: ... elif args.schema: ... elif args.table: ... else: print_help
ExtractMain ==
    /\ prog = "extract" /\ pc = "main"
    /\ IF args.all
       THEN /\ todo' = AllItems
            /\ pc' = "loop"
            /\ UNCHANGED exit_code
       ELSE IF args.schema # None
       THEN IF args.schema[1] \in DOMAIN TABLES_TO_EXTRACT
            THEN /\ todo' = SchemaItems(args.schema[1])
                 /\ pc' = "loop"
                 /\ UNCHANGED exit_code
            ELSE \* Unknown schema: sys.exit(1)
                 /\ pc' = "exited"
                 /\ exit_code' = Some(1)
                 /\ UNCHANGED todo
       ELSE IF args.table # None
       THEN IF HasDot(args.table[1])
            THEN /\ todo' = <<[schema |-> args.table[1][1], table |-> args.table[1][2]]>>
                 /\ pc' = "loop"
                 /\ UNCHANGED exit_code
            ELSE \* Table must be in format schema.table: sys.exit(1)
                 /\ pc' = "exited"
                 /\ exit_code' = Some(1)
                 /\ UNCHANGED todo
       ELSE \* parser.print_help(); sys.exit(0)
            /\ pc' = "exited"
            /\ exit_code' = Some(0)
            /\ UNCHANGED todo
    /\ UNCHANGED <<prog, args, uncaught, results_list, rt_results, results>>
    /\ UNCHANGED stores
    /\ UNCHANGED load_locals
    /\ UNCHANGED rt_locals
    /\ UNCHANGED source
    /\ UNCHANGED jobs
    /\ UNCHANGED validate_locals
    /\ UNCHANGED conn

\* Faulty variant of AllSuccess: any() in place of all().
AnySuccess(list) == \E i \in DOMAIN list : list[i]["success"]

\* all(r['success'] for r in results)
AllSuccess(list) == \A i \in DOMAIN list : list[i]["success"]

\* Exit code based on results
ExtractExit ==
    /\ prog = "extract" /\ pc = "loop" /\ todo = <<>>
    /\ pc' = "exited"
    /\ exit_code' = Some(IF AllSuccess(results) THEN 0 ELSE 1)
    /\ UNCHANGED <<prog, args, uncaught, todo, results_list, rt_results, results>>
    /\ UNCHANGED stores
    /\ UNCHANGED load_locals
    /\ UNCHANGED rt_locals
    /\ UNCHANGED source
    /\ UNCHANGED jobs
    /\ UNCHANGED validate_locals
    /\ UNCHANGED conn

(***************************************************************************)
(* load_to_bigquery.py.                                                    *)
(***************************************************************************)
\* SCHEMA_MAPPING: PostgreSQL schema -> BigQuery dataset, cut down to the two
\* schemas of TABLES_TO_EXTRACT; its keys iterate in SchemaOrder.
SCHEMA_MAPPING == [raw |-> "raw_data", staging |-> "staging"]

\* str.startswith
StartsWith(str, prefix) ==
    Len(prefix) <= Len(str) /\ SubSeq(str, 1, Len(prefix)) = prefix

\* Faulty variant of StemToTableId: the prefix is removed as often as it
\* occurs at the start (the effect of a loop or of a replace).
RECURSIVE StemToTableIdStripAll(_, _)
StemToTableIdStripAll(schema, filename) ==
    IF StartsWith(filename, schema \o <<"_">>)
    THEN StemToTableIdStripAll(schema, SubSeq(filename, Len(schema) + 2, Len(filename)))
    ELSE filename

\* filename[len(schema)+1:] if filename.startswith(f"{schema}_") else filename
\* on strings given as sequences.
StemToTableId(schema, filename) ==
    IF StartsWith(filename, schema \o <<"_">>)
    THEN SubSeq(filename, Len(schema) + 2, Len(filename))
    ELSE filename

\* table_id of an artifact of the configured `schema` (one piece) whose file
\* stem is `filename`.
TableIdOf(schema, filename) == StemToTableId(<<schema>>, filename)

\* csv_path.exists() and the file behind it.
FileAt(csv_path) == IF csv_path \in DOMAIN exports THEN exports[csv_path] ELSE None

\* table_ref = f"{project_id}.{dataset_id}.{table_id}" (one project)
TableRef(dataset_id, table_id) == [dataset |-> dataset_id, table |-> table_id]

\* Faulty variant of TableAfterLoad: every load adds to the table.
TableAfterLoadAlwaysAdds(table_ref, file, write_disposition) ==
    IF table_ref \in DOMAIN bq_tables
    THEN [num_rows |-> bq_tables[table_ref].num_rows + file.rows,
          schema_fields |-> bq_tables[table_ref].schema_fields]
    ELSE [num_rows |-> file.rows, schema_fields |-> file.cols]

\* Faulty variant of TableAfterLoad: every load replaces the table.
TableAfterLoadAlwaysReplaces(table_ref, file, write_disposition) ==
    [num_rows |-> file.rows, schema_fields |-> file.cols]

\* The destination table after a load job that took `file` has completed:
\* WRITE_TRUNCATE replaces the rows and the autodetected schema, WRITE_APPEND
\* adds the rows to a table that exists.
TableAfterLoad(table_ref, file, write_disposition) ==
    IF write_disposition = "WRITE_APPEND" /\ table_ref \in DOMAIN bq_tables
    THEN [num_rows |-> bq_tables[table_ref].num_rows + file.rows,
          schema_fields |-> bq_tables[table_ref].schema_fields]
    ELSE [num_rows |-> file.rows, schema_fields |-> file.cols]

\* Faulty variant of JobAccepts: bad records are skipped, not fatal.
JobAcceptsBadRecords(table_ref, file, write_disposition) ==
    (write_disposition = "WRITE_APPEND" /\ table_ref \in DOMAIN bq_tables)
        => bq_tables[table_ref].schema_fields = file.cols

\* Whether the load job accepts the file: max_bad_records=0 and
\* allow_jagged_rows=False reject a file with a bad row; an append must fit
\* the schema of the table that exists.
JobAccepts(table_ref, file, write_disposition) ==
    /\ ~file.bad
    /\ (write_disposition = "WRITE_APPEND" /\ table_ref \in DOMAIN bq_tables)
          => bq_tables[table_ref].schema_fields = file.cols

LoadFailure(error) == [success |-> FALSE, error |-> error]

\* Faulty variant of LoadSuccess: the table as it was read before the job.
LoadSuccessStale(table_ref, table) ==
    [success |-> TRUE, table_ref |-> table_ref,
     rows_loaded |-> IF table_ref \in DOMAIN bq_tables
                     THEN bq_tables[table_ref].num_rows ELSE 0,
     schema_fields |-> table.schema_fields]

\* (table_size_mb is left out.)
LoadSuccess(table_ref, table) ==
    [success |-> TRUE, table_ref |-> table_ref,
     rows_loaded |-> table.num_rows, schema_fields |-> table.schema_fields]

\* Faulty variant of dataset_exists: the dataset is taken to exist.
DatasetExistsAlways(dataset_id) == TRUE

\* dataset_exists(client, dataset_id): get_dataset answers, or NotFound.
dataset_exists(dataset_id) == dataset_id \in bq_datasets

\* get_bigquery_client() of the Loader: sys.exit(1) when it fails.
load_get_bigquery_client == {SysExit, Ret("client")}

\* The ways load_csv_to_bigquery can run: `end` is the call that raised, or
\* the return value; `job` tells whether client.load_table_from_file was
\* called; `table` is what the load job wrote (None: nothing).
load_csv_runs(csv_path, dataset_id, table_id, write_disposition) ==
    LET Stop(r, j) == [end |-> r, job |-> j, table |-> None]
        file == FileAt(csv_path)[1]
        table_ref == TableRef(dataset_id, table_id)
        after == TableAfterLoad(table_ref, file, write_disposition)
    IN IF FileAt(csv_path) = None
       THEN {Stop(Ret(LoadFailure("File not found")), FALSE)}
       ELSE {Stop(c, FALSE) : c \in {x \in load_get_bigquery_client : Raised(x)}}
            \cup {Stop(Raise("request failed"), FALSE)}
            \cup (IF ~dataset_exists(dataset_id)
                  THEN {Stop(Ret(LoadFailure("Dataset not found")), FALSE)}
                  ELSE IF ~JobAccepts(table_ref, file, write_disposition)
                  THEN {Stop(Raise("job rejected"), TRUE)}
                  ELSE {[end |-> Ret(LoadSuccess(table_ref, after)), job |-> TRUE,
                         table |-> Some(after)],
                        [end |-> Raise("request failed"), job |-> TRUE,
                         table |-> Some(after)]})

LoadOutcome(end) == IF Raised(end) THEN LoadFailure(end.msg) ELSE end.val[1]

\* One call result = load_csv_to_bigquery(...): `list` receives the outcome
\* and control goes on at `next`.
LoadCsvToBigQuery(csv_path, dataset_id, table_id, write_disposition, list, next) ==
    \E run \in load_csv_runs(csv_path, dataset_id, table_id, write_disposition) :
        /\ bq_tables' = IF run.table = None THEN bq_tables
                        ELSE Put(bq_tables, TableRef(dataset_id, table_id), run.table[1])
        /\ jobs' = IF run.job
                   THEN Append(jobs, [table_ref |-> TableRef(dataset_id, table_id),
                                      write_disposition |-> write_disposition])
                   ELSE jobs
        /\ IF Raised(run.end) /\ ~ExceptException(run.end.exc)
           THEN /\ Propagate(run.end)
                /\ list' = list
           ELSE /\ list' = Append(list, LoadOutcome(run.end))
                /\ pc' = next
                /\ UNCHANGED <<exit_code, uncaught>>

\* Command lines of load_to_bigquery.py.
LoadArgs ==
    LET A(f, t, sc, a) == [file |-> f, table |-> t, schema |-> sc, all |-> a]
        csv == Some(ArtifactPath("raw", "csv_customers"))
    IN {A(None, None, None, FALSE),
        A(csv, None, None, FALSE),
        A(csv, Some(<<"raw_data", "csv_customers">>), None, FALSE),
        A(csv, Some(<<"csv_customers">>), None, FALSE),
        A(None, None, Some("raw"), FALSE),
        A(None, None, Some("nope"), FALSE),
        A(None, None, None, TRUE)}

\* if args.file and args.table: ... elif args.schema: ... elif args.all: ...
LoadMain ==
    /\ prog = "load" /\ pc = "main"
    /\ IF args.file # None /\ args.table # None
       THEN IF HasDot(args.table[1])
            THEN /\ pc' = "single"
                 /\ UNCHANGED <<exit_code, schemas_todo>>
            ELSE \* Table must be in format dataset.table: sys.exit(1)
                 /\ pc' = "exited"
                 /\ exit_code' = Some(1)
                 /\ UNCHANGED schemas_todo
       ELSE IF args.schema # None
       THEN /\ schemas_todo' = <<args.schema[1]>>
            /\ pc' = "schemas"
            /\ UNCHANGED exit_code
       ELSE IF args.all
       THEN /\ schemas_todo' = SchemaOrder
            /\ pc' = "schemas"
            /\ UNCHANGED exit_code
       ELSE \* parser.print_help(); sys.exit(0)
            /\ pc' = "exited"
            /\ exit_code' = Some(0)
            /\ UNCHANGED schemas_todo
    /\ UNCHANGED <<prog, args, uncaught, todo, results_list, rt_results, results,
                   schema_results>>
    /\ UNCHANGED stores
    /\ UNCHANGED rt_locals
    /\ UNCHANGED source
    /\ UNCHANGED jobs
    /\ UNCHANGED validate_locals
    /\ UNCHANGED conn

\* dataset_id, table_id = args.table.split('.', 1)
\* result = load_csv_to_bigquery(csv_path=args.file, ...); results = [result]
LoadSingle ==
    /\ prog = "load" /\ pc = "single"
    /\ LoadCsvToBigQuery(args.file[1], args.table[1][1], <<args.table[1][2]>>,
                         "WRITE_TRUNCATE", results, "schemas")
    /\ UNCHANGED <<prog, args, todo, results_list, rt_results,
                   exports, export_dirs, bq_datasets>>
    /\ UNCHANGED rt_locals
    /\ UNCHANGED load_locals
    /\ UNCHANGED source
    /\ UNCHANGED validate_locals
    /\ UNCHANGED conn

\* The orders in which csv_dir.glob('*.csv') can list the files of a set.
Orders(files) ==
    {seq \in [1..Cardinality(files) -> files] :
        \A i, j \in 1..Cardinality(files) : i # j => seq[i] # seq[j]}

\* load_schema_csvs(schema) up to its loop: an unknown schema, a missing
\* directory or a directory without CSV files returns [] at once.
LoadSchemaCsvs ==
    /\ prog = "load" /\ pc = "schemas" /\ schemas_todo # <<>>
    /\ LET schema == Head(schemas_todo)
           csv_files == {p \in DOMAIN exports : p.dir = schema /\ exports[p] # None}
       IN /\ schemas_todo' = Tail(schemas_todo)
          /\ IF \/ schema \notin DOMAIN SCHEMA_MAPPING
                \/ schema \notin export_dirs
                \/ csv_files = {}
             THEN UNCHANGED <<pc, todo>>
             ELSE /\ pc' = "schema_loop"
                  /\ \E order \in Orders(csv_files) :
                       todo' = [i \in DOMAIN order |->
                                   [csv_path |-> order[i],
                                    dataset_id |-> SCHEMA_MAPPING[schema],
                                    table_id |-> TableIdOf(schema, order[i].stem)]]
    /\ schema_results' = <<>>
    /\ UNCHANGED <<prog, args, exit_code, uncaught, results_list, rt_results, results>>
    /\ UNCHANGED stores
    /\ UNCHANGED rt_locals
    /\ UNCHANGED source
    /\ UNCHANGED jobs
    /\ UNCHANGED validate_locals
    /\ UNCHANGED conn

\* for csv_file in csv_files: result = load_csv_to_bigquery(...); results.append(result)
LoadCsv ==
    /\ prog = "load" /\ pc = "schema_loop" /\ todo # <<>>
    /\ LoadCsvToBigQuery(Head(todo).csv_path, Head(todo).dataset_id,
                         Head(todo).table_id, "WRITE_TRUNCATE", schema_results,
                         "schema_loop")
    /\ todo' = Tail(todo)
    /\ UNCHANGED <<prog, args, results_list, rt_results, results, schemas_todo,
                   exports, export_dirs, bq_datasets>>
    /\ UNCHANGED rt_locals
    /\ UNCHANGED source
    /\ UNCHANGED validate_locals
    /\ UNCHANGED conn

\* return results; in main: results = ... or results.extend(schema_results)
LoadSchemaReturn ==
    /\ prog = "load" /\ pc = "schema_loop" /\ todo = <<>>
    /\ results' = results \o schema_results
    /\ schema_results' = <<>>
    /\ pc' = "schemas"
    /\ UNCHANGED <<prog, args, exit_code, uncaught, todo, results_list, rt_results,
                   schemas_todo>>
    /\ UNCHANGED stores
    /\ UNCHANGED rt_locals
    /\ UNCHANGED source
    /\ UNCHANGED jobs
    /\ UNCHANGED validate_locals
    /\ UNCHANGED conn

\* Faulty variant of LoadExitStatus: an empty result list counts as a failure.
LoadExitStatusEmptyFails(rs) == IF rs # <<>> /\ AllSuccess(rs) THEN 0 ELSE 1

\* if results: ... sys.exit(0) if all(r['success'] for r in results), else
\* sys.exit(1). With no results main runs off its end: status 0.
LoadExitStatus(rs) == IF rs # <<>> /\ ~AllSuccess(rs) THEN 1 ELSE 0

\* Summary: if results: ... sys.exit(0 if all succeeded else 1); with no
\* result main() returns and the interpreter exits with status 0.
LoadExit ==
    /\ prog = "load" /\ pc = "schemas" /\ schemas_todo = <<>>
    /\ pc' = "exited"
    /\ exit_code' = Some(LoadExitStatus(results))
    /\ UNCHANGED <<prog, args, uncaught, todo, results_list, rt_results, results>>
    /\ UNCHANGED stores
    /\ UNCHANGED rt_locals
    /\ UNCHANGED load_locals
    /\ UNCHANGED source
    /\ UNCHANGED jobs
    /\ UNCHANGED validate_locals
    /\ UNCHANGED conn

(***************************************************************************)
(* load_csv_to_bigquery used as a library function: a caller that passes   *)
(* write_disposition itself and loads the same artifact into the same      *)
(* table twice in succession.                                              *)
(***************************************************************************)
\* The write_disposition values the function documents.
WriteDispositions == {"WRITE_TRUNCATE", "WRITE_APPEND"}

\* The arguments of the two calls.
CallerArgs ==
    {[csv_path |-> ArtifactPath("raw", "csv_customers"),
      dataset_id |-> "raw_data",
      table_id |-> <<"csv_customers">>,
      write_disposition |-> wd] : wd \in WriteDispositions}

\* result = load_csv_to_bigquery(csv_path, dataset_id, table_id,
\*                               write_disposition=write_disposition)
LoadCall ==
    /\ prog = "caller" /\ pc = "calls" /\ Len(results) < 2
    /\ LoadCsvToBigQuery(args.csv_path, args.dataset_id, args.table_id,
                         args.write_disposition, results, "calls")
    /\ UNCHANGED <<prog, args, todo, results_list, rt_results,
                   exports, export_dirs, bq_datasets>>
    /\ UNCHANGED rt_locals
    /\ UNCHANGED load_locals
    /\ UNCHANGED source
    /\ UNCHANGED validate_locals
    /\ UNCHANGED conn

\* Both calls have returned.
CallerReturn ==
    /\ prog = "caller" /\ pc = "calls" /\ Len(results) = 2
    /\ pc' = "exited"
    /\ exit_code' = Some(0)
    /\ UNCHANGED <<prog, args, uncaught, todo, results_list, rt_results, results>>
    /\ UNCHANGED stores
    /\ UNCHANGED rt_locals
    /\ UNCHANGED load_locals
    /\ UNCHANGED source
    /\ UNCHANGED jobs
    /\ UNCHANGED validate_locals
    /\ UNCHANGED conn

\* A staged file with a row that has the wrong number of fields.
BadFile == [rows |-> MaxCount, cols |-> 1, complete |-> TRUE, bad |-> TRUE]

\* The staged files a caller can hand over: complete files of any size, and
\* a file with a bad row.
StagedFiles == {CompleteFile(df) : df \in DataFrames} \cup {BadFile}

\* The states a destination table can be in before the first call.
TableStates == [num_rows : Counts, schema_fields : 1..Cardinality(Names)]

(***************************************************************************)
(* The artifact name on its way from the Extractor to the Loader, for      *)
(* schema and table names given character by character.                    *)
(***************************************************************************)
\* Names are strings of 1..MaxLen characters over a letter and '_'.
MaxLen == 3
Chars == {"r", "_"}
Strings == UNION {[1..n -> Chars] : n \in 1..MaxLen}

NamingArgs == [schema : Strings, table : Strings]

\* extract_table: output_file = Path(output_dir) / f"{schema}_{table}.csv",
\* written by df.to_csv.
NameArtifact ==
    /\ prog = "naming" /\ pc = "name"
    /\ exports' = [p \in {[dir |-> args.schema,
                           stem |-> ArtifactStem(args.schema, args.table)]}
                    |-> Some(PriorFile)]
    /\ export_dirs' = {args.schema}
    /\ pc' = "parse"
    /\ UNCHANGED <<prog, args, exit_code, uncaught, todo, results_list, rt_results,
                   results, bq_datasets, bq_tables>>
    /\ UNCHANGED rt_locals
    /\ UNCHANGED load_locals
    /\ UNCHANGED source
    /\ UNCHANGED jobs
    /\ UNCHANGED validate_locals
    /\ UNCHANGED conn

\* load_schema_csvs(schema): for csv_file in csv_dir.glob('*.csv') the
\* table_id is derived from csv_file.stem.
NameTable ==
    /\ prog = "naming" /\ pc = "parse"
    /\ \E order \in Orders({p \in DOMAIN exports : p.dir = args.schema}) :
         todo' = [i \in DOMAIN order |->
                     [csv_path |-> order[i],
                      table_id |-> StemToTableId(args.schema, order[i].stem)]]
    /\ pc' = "exited"
    /\ exit_code' = Some(0)
    /\ UNCHANGED <<prog, args, uncaught, results_list, rt_results, results>>
    /\ UNCHANGED stores
    /\ UNCHANGED rt_locals
    /\ UNCHANGED load_locals
    /\ UNCHANGED source
    /\ UNCHANGED jobs
    /\ UNCHANGED validate_locals
    /\ UNCHANGED conn

(***************************************************************************)
(* validate_bigquery.py.                                                   *)
(***************************************************************************)
\* 'Schema valid': len(table_obj.schema) == 11
SchemaValidColumns == 11

\* The column counts a destination table can have, and a caller can expect.
ColumnCounts == {1, SchemaValidColumns}

\* Table.clustering_fields: None, or the list of clustering columns.
ClusteringFields == {None, Some(<<>>), Some(<<"a">>)}

\* The destination tables validate_table can meet.
ValidatedTables ==
    [num_rows : Counts, schema_fields : ColumnCounts,
     clustering_fields : ClusteringFields]

\* validate_table(dataset, table, expected_rows): expected_rows is the
\* caller's; expected_cols is the column count the caller expects, for which
\* validate_table has no parameter.
ValidateArgs ==
    [dataset : {"raw_data"}, table : {<<"csv_customers">>},
     expected_rows : Counts, expected_cols : ColumnCounts]

\* client = bigquery.Client() and client.get_table(table_ref)
validate_get_table(table_ref) ==
    {Raise("request failed"),
     IF table_ref \in DOMAIN bq_tables
     THEN Ret(bq_tables[table_ref]) ELSE Raise("Not found")}

\* client = bigquery.Client(); try: table_obj = client.get_table(table_ref)
\* except Exception: return False   (and __main__: sys.exit(1))
ValidateGetTable ==
    /\ prog = "validate" /\ pc = "main"
    /\ \/ \* bigquery.Client() raises, outside the try
          /\ Propagate(Raise("client failed"))
          /\ UNCHANGED <<table_obj, verdict>>
       \/ \E r \in validate_get_table(TableRef(args.dataset, args.table)) :
            IF Raised(r)
            THEN /\ verdict' = Some(FALSE)
                 /\ pc' = "exited"
                 /\ exit_code' = Some(1)
                 /\ UNCHANGED <<table_obj, uncaught>>
            ELSE /\ table_obj' = r.val
                 /\ pc' = "count_rows"
                 /\ UNCHANGED <<verdict, exit_code, uncaught>>
    /\ UNCHANGED <<prog, args, todo, results_list, rt_results, results,
                   actual_rows, vchecks>>
    /\ UNCHANGED stores
    /\ UNCHANGED rt_locals
    /\ UNCHANGED load_locals
    /\ UNCHANGED source
    /\ UNCHANGED jobs
    /\ UNCHANGED conn

\* result = client.query("SELECT COUNT(*) ...").to_dataframe()
\* actual_rows = int(result['count'][0])        (no try around it)
ValidateRowCount ==
    /\ prog = "validate" /\ pc = "count_rows"
    /\ \/ /\ Propagate(Raise("query failed"))
          /\ UNCHANGED actual_rows
       \/ /\ actual_rows' = Some(bq_tables[TableRef(args.dataset, args.table)].num_rows)
          /\ pc' = "preview"
          /\ UNCHANGED <<exit_code, uncaught>>
    /\ UNCHANGED <<prog, args, todo, results_list, rt_results, results,
                   table_obj, vchecks, verdict>>
    /\ UNCHANGED stores
    /\ UNCHANGED rt_locals
    /\ UNCHANGED load_locals
    /\ UNCHANGED source
    /\ UNCHANGED jobs
    /\ UNCHANGED conn

\* df = client.query("SELECT * ... LIMIT 3").to_dataframe()   (no try)
ValidateSample ==
    /\ prog = "validate" /\ pc = "preview"
    /\ \/ Propagate(Raise("query failed"))
       \/ /\ pc' = "verdict"
          /\ UNCHANGED <<exit_code, uncaught>>
    /\ UNCHANGED <<prog, args, todo, results_list, rt_results, results>>
    /\ UNCHANGED validate_locals
    /\ UNCHANGED stores
    /\ UNCHANGED rt_locals
    /\ UNCHANGED load_locals
    /\ UNCHANGED source
    /\ UNCHANGED jobs
    /\ UNCHANGED conn

\* checks = {'Table exists': True, 'Row count matches': ...,
\*           'Schema valid': ..., 'Clustering active': ...}
ValidateChecks(table, rows, expected_rows) ==
    [table_exists      |-> TRUE,
     row_count_matches |-> rows = expected_rows,
     schema_valid      |-> table.schema_fields = SchemaValidColumns,
     clustering_active |-> table.clustering_fields # None]

\* all_passed = all(checks.values()); return True / False;
\* __main__: sys.exit(0 if success else 1)
ValidateSummary ==
    /\ prog = "validate" /\ pc = "verdict"
    /\ LET c == ValidateChecks(table_obj[1], actual_rows[1], args.expected_rows)
           all_passed == \A k \in DOMAIN c : c[k]
       IN /\ vchecks' = c
          /\ verdict' = Some(all_passed)
          /\ exit_code' = Some(IF all_passed THEN 0 ELSE 1)
    /\ pc' = "exited"
    /\ UNCHANGED <<prog, args, uncaught, todo, results_list, rt_results, results,
                   table_obj, actual_rows>>
    /\ UNCHANGED stores
    /\ UNCHANGED rt_locals
    /\ UNCHANGED load_locals
    /\ UNCHANGED source
    /\ UNCHANGED jobs
    /\ UNCHANGED conn

(***************************************************************************)
(* The specification.                                                      *)
(***************************************************************************)
\* The directories the files of a staging store need.
DirsOf(files) == {p.dir : p \in {q \in ArtifactPaths : files[q] # None}}

\* A destination table an earlier load left behind.
PriorTable == [num_rows |-> MaxCount, schema_fields |-> Cardinality(Names)]

LoadedTableRefs ==
    {TableRef(SCHEMA_MAPPING[p.dir], TableIdOf(p.dir, p.stem)) : p \in ArtifactPaths}

Init ==
    /\ exit_code = None
    /\ uncaught = None
    /\ todo = <<>>
    /\ results_list = <<>>
    /\ rt_results = <<>>
    /\ pg_count = None /\ bq_count = None /\ diff = None
    /\ pg_columns = None /\ bq_columns = None
    /\ pg_rows = None /\ bq_rows = None
    /\ results = <<>>
    /\ schemas_todo = <<>>
    /\ schema_results = <<>>
    /\ scanned = {}
    /\ jobs = <<>>
    /\ conn = None
    /\ table_obj = None /\ actual_rows = None
    /\ vchecks = <<>> /\ verdict = None
    /\ \/ /\ prog = "reconcile" /\ args \in ReconcileArgs
          /\ exports = [p \in ArtifactPaths |-> None]
          /\ export_dirs = {}
          /\ bq_datasets = {} /\ bq_tables = <<>>
          /\ pg_tables = {}
       \/ /\ prog = "extract" /\ args \in ExtractArgs
          /\ pg_tables \in SUBSET {AllItems[i] : i \in DOMAIN AllItems}
          /\ exports \in [ArtifactPaths -> {None, Some(PriorFile)}]
          /\ export_dirs = DirsOf(exports)
          /\ bq_datasets = {} /\ bq_tables = <<>>
       \/ /\ prog = "load" /\ args \in LoadArgs
          /\ exports \in [ArtifactPaths -> {None, Some(PriorFile), Some(BadFile)}]
          /\ export_dirs \in {d \in SUBSET DOMAIN SCHEMA_MAPPING : DirsOf(exports) \subseteq d}
          /\ bq_datasets \in SUBSET {SCHEMA_MAPPING[sc] : sc \in DOMAIN SCHEMA_MAPPING}
          /\ bq_tables \in {<<>>, [ref \in LoadedTableRefs |-> PriorTable]}
          /\ pg_tables = {}
       \/ /\ prog = "caller" /\ args \in CallerArgs
          /\ \E f \in StagedFiles :
               exports = [p \in ArtifactPaths |->
                            IF p = ArtifactPath("raw", "csv_customers")
                            THEN Some(f) ELSE None]
          /\ export_dirs = {"raw"}
          /\ bq_datasets \in {{}, {"raw_data"}}
          /\ bq_tables \in {<<>>} \cup
                {[ref \in {TableRef("raw_data", <<"csv_customers">>)} |-> t] :
                    t \in TableStates}
          /\ pg_tables = {}
       \/ /\ prog = "naming" /\ args \in NamingArgs
          /\ exports = <<>>
          /\ export_dirs = {}
          /\ bq_datasets = {} /\ bq_tables = <<>>
          /\ pg_tables = {}
       \/ /\ prog = "validate" /\ args \in ValidateArgs
          /\ exports = <<>>
          /\ export_dirs = {}
          /\ bq_datasets = {"raw_data"}
          /\ bq_tables \in {<<>>} \cup
                {[ref \in {TableRef("raw_data", <<"csv_customers">>)} |-> t] :
                    t \in ValidatedTables}
          /\ pg_tables = {}
    /\ pc = CASE prog = "caller" -> "calls"
              [] prog = "naming" -> "name"
              [] OTHER -> "main"

Next ==
    \/ ReconcileMain
    \/ ReconcileTable
    \/ RowCountCheck
    \/ SchemaCheck
    \/ SampleCheck
    \/ Summary
    \/ FinalSummary
    \/ ExtractMain
    \/ ExtractTable
    \/ ExtractExit
    \/ LoadMain
    \/ LoadSingle
    \/ LoadSchemaCsvs
    \/ LoadCsv
    \/ LoadSchemaReturn
    \/ LoadExit
    \/ LoadCall
    \/ CallerReturn
    \/ NameArtifact
    \/ NameTable
    \/ ValidateGetTable
    \/ ValidateRowCount
    \/ ValidateSample
    \/ ValidateSummary

Spec == Init /\ [][Next]_vars

(***************************************************************************)
(* Properties of reconcile_table.                                          *)
(***************************************************************************)
CheckNames == {"row_count", "schema", "sample_data"}

\* The reports reconcile_table has returned so far.
Reports == {results_list[i] : i \in DOMAIN results_list}

HasMatch(entry) == "match" \in DOMAIN entry
HasError(entry) == "error" \in DOMAIN entry

\* reconcile_table is running and has finished the named check.
Recorded(name) == rt_results # <<>> /\ name \in DOMAIN rt_results.checks

\* C1: every returned report has overall_status PASS if and only if every
\* check entry that carries a match flag has match = true, and FAIL otherwise.
C1_StatusIffAllMatch ==
    \A rep \in Reports :
        LET allTrue == \A k \in DOMAIN rep.checks :
                           HasMatch(rep.checks[k]) => rep.checks[k].match = TRUE
        IN /\ rep.overall_status \in {"PASS", "FAIL"}
           /\ rep.overall_status = "PASS" <=> allTrue

\* C1 witness: one run returned a PASS report whose two match flags are true
\* and a FAIL report that holds a false match flag.
C1_Witness ==
    /\ \E rep \in Reports :
         /\ rep.overall_status = "PASS"
         /\ HasMatch(rep.checks["row_count"]) /\ rep.checks["row_count"].match
         /\ HasMatch(rep.checks["schema"]) /\ rep.checks["schema"].match
    /\ \E rep \in Reports :
         /\ rep.overall_status = "FAIL"
         /\ \E k \in DOMAIN rep.checks :
              HasMatch(rep.checks[k]) /\ ~rep.checks[k].match

\* C2: whenever the row-count check or the schema check ended in an error,
\* the returned report has overall_status FAIL.
C2_ErrorMeansFail ==
    \A rep \in Reports :
        (HasError(rep.checks["row_count"]) \/ HasError(rep.checks["schema"]))
            => rep.overall_status = "FAIL"

\* What the row-count check of the running call produced by itself: the
\* entry for the two counts it read, or an error entry when a read raised.
OwnRowCountResult(entry) ==
    IF pg_count # None /\ bq_count # None
    THEN /\ ~HasError(entry)
         /\ entry.postgres = pg_count[1]
         /\ entry.bigquery = bq_count[1]
         /\ entry.match = (pg_count[1] = bq_count[1])
    ELSE DOMAIN entry = {"error"}

\* What the sample check of the running call produced by itself.
OwnSampleResult(entry) ==
    IF pg_rows # None /\ bq_rows # None
    THEN entry = [retrieved |-> TRUE]
    ELSE DOMAIN entry = {"error"}

C4_ConnectivityIsolated ==
    (prog = "reconcile" /\ pc = "exited") =>
        /\ uncaught # Some("SystemExit")
        /\ \A rep \in Reports : DOMAIN rep.checks = CheckNames

\* C5: for the counts S and D read by the row-count check, the recorded
\* entry has match = (S = D), and when S # D the check reports D - S.
C5_RowCount ==
    (Recorded("row_count") /\ pg_count # None /\ bq_count # None) =>
        LET S == pg_count[1]
            D == bq_count[1]
            entry == rt_results.checks["row_count"]
        IN /\ HasMatch(entry)
           /\ entry.match = (S = D)
           /\ entry.postgres = S /\ entry.bigquery = D
           /\ S # D => diff = Some(D - S)

\* C5 witness: the destination holds one row more than the source.
C5_Witness ==
    /\ Recorded("row_count")
    /\ pg_count = Some(0) /\ bq_count = Some(1)
    /\ ~rt_results.checks["row_count"].match
    /\ diff = Some(1)

\* The set of names in a column list, spelled out over the name universe.
NamesIn(list) == {n \in Names : \E i \in 1..Len(list) : list[i] = n}

\* C6: the schema check sets match = true exactly when the two column counts
\* are equal, whatever the names; two same-size lists with different names
\* give match = true with non-empty missing_in_bq and extra_in_bq.
C6_SchemaCountMatch ==
    (Recorded("schema") /\ pg_columns # None /\ bq_columns # None) =>
        LET entry == rt_results.checks["schema"]
            same == Len(pg_columns[1]) = Len(bq_columns[1])
        IN /\ HasMatch(entry)
           /\ entry.match = same
           /\ (same /\ NamesIn(pg_columns[1]) # NamesIn(bq_columns[1])) =>
                /\ entry.match
                /\ entry.missing_in_bq # {}
                /\ entry.extra_in_bq # {}

\* C6 witness: one column on each side, under different names.
C6_Witness ==
    /\ Recorded("schema")
    /\ pg_columns = Some(<<"a">>) /\ bq_columns = Some(<<"b">>)
    /\ rt_results.checks["schema"].match
    /\ rt_results.checks["schema"].missing_in_bq = {"a"}
    /\ rt_results.checks["schema"].extra_in_bq = {"b"}

\* C7: the schema check records missing_in_bq = source names minus
\* destination names and extra_in_bq = destination names minus source names,
\* whatever the value of match.
C7_SchemaSetAlgebra ==
    (Recorded("schema") /\ pg_columns # None /\ bq_columns # None) =>
        LET entry == rt_results.checks["schema"]
            src == NamesIn(pg_columns[1])
            dst == NamesIn(bq_columns[1])
        IN /\ entry.missing_in_bq = {n \in src : n \notin dst}
           /\ entry.extra_in_bq = {n \in dst : n \notin src}

\* C7 witness: the destination lacks one source column and match is false.
C7_Witness ==
    /\ Recorded("schema")
    /\ pg_columns = Some(<<"a", "b">>) /\ bq_columns = Some(<<"a">>)
    /\ ~rt_results.checks["schema"].match
    /\ rt_results.checks["schema"].missing_in_bq = {"b"}
    /\ rt_results.checks["schema"].extra_in_bq = {}

\* C8: two reports that agree on the row-count and schema outcomes have the
\* same overall_status, whatever the sample-data check did in each.
C8_SampleNeverDecides ==
    \A r1 \in Reports, r2 \in Reports :
        (/\ r1.checks["row_count"] = r2.checks["row_count"]
         /\ r1.checks["schema"] = r2.checks["schema"])
            => r1.overall_status = r2.overall_status

\* C8 witness: two reports with equal row-count and schema entries, all flags
\* true, one with a retrieved sample and one whose sample check failed.
C8_Witness ==
    \E r1 \in Reports, r2 \in Reports :
        /\ r1.checks["row_count"] = r2.checks["row_count"]
        /\ r1.checks["schema"] = r2.checks["schema"]
        /\ HasMatch(r1.checks["row_count"]) /\ r1.checks["row_count"].match
        /\ HasMatch(r1.checks["schema"]) /\ r1.checks["schema"].match
        /\ r1.checks["sample_data"] = [retrieved |-> TRUE]
        /\ HasError(r2.checks["sample_data"])
        /\ r1.overall_status = "PASS" /\ r2.overall_status = "PASS"

(***************************************************************************)
(* Properties of the three entry points.                                   *)
(***************************************************************************)
\* The command line selects something to process: main() gets past its
\* argument dispatch without printing the help or rejecting a name.
SelectionMade ==
    CASE prog = "extract" ->
           \/ args.all
           \/ ~args.all /\ args.schema # None /\ args.schema[1] \in {"raw", "staging"}
           \/ ~args.all /\ args.schema = None /\ args.table # None
                /\ Len(args.table[1]) = 2
      [] prog = "load" ->
           \/ args.file # None /\ args.table # None /\ Len(args.table[1]) = 2
           \/ ~(args.file # None /\ args.table # None)
                /\ (args.schema # None \/ args.all)
      [] prog = "reconcile" ->
           \/ args.table # None /\ args.bq_table # None
                /\ Len(args.table[1]) = 2 /\ Len(args.bq_table[1]) = 2
           \/ ~(args.table # None /\ args.bq_table # None) /\ args.all
      [] OTHER -> FALSE

\* An item was being processed when an exception ended the process: that
\* item has no outcome.
ItemAborted == uncaught # None

\* Every item the run processed succeeded: none was aborted, every extraction
\* or load outcome has success = true, every reconciliation report is PASS.
EveryItemSucceeded ==
    /\ ~ItemAborted
    /\ \A i \in DOMAIN results : results[i].success = TRUE
    /\ \A i \in DOMAIN results_list : results_list[i].overall_status = "PASS"

\* C9: for each of extract main, load main and reconcile main, once a
\* selection has been made the exit code is 0 if and only if every processed
\* item succeeded, and non-zero otherwise.
C9_ExitCode ==
    (pc = "exited" /\ SelectionMade) =>
        /\ exit_code # None
        /\ exit_code = Some(0) <=> EveryItemSucceeded

\* C9 witness: a whole-catalog extraction in which one table failed and the
\* others succeeded has ended with a non-zero exit code.
C9_Witness ==
    /\ prog = "extract" /\ pc = "exited" /\ args.all
    /\ Len(results) = 3
    /\ results[1].success /\ ~results[2].success /\ results[3].success
    /\ exit_code = Some(1)

\* C10: in a batch extraction (--all, or --schema of a configured schema),
\* whatever tables are missing or fail, every configured table is attempted:
\* the run ends with exactly one outcome per table, in configuration order,
\* and with a non-zero exit code when at least one of them failed.
C10_BatchReturnsAllOutcomes ==
    (/\ prog = "extract" /\ pc = "exited"
     /\ (args.all \/ (args.schema # None /\ args.schema[1] \in {"raw", "staging"}))) =>
        LET batch == IF args.all THEN AllItems ELSE SchemaItems(args.schema[1])
        IN /\ Len(results) = Len(batch)
           /\ \A k \in DOMAIN results :
                /\ results[k].schema = batch[k].schema
                /\ results[k].table = batch[k].table
           /\ (\E k \in DOMAIN results : ~results[k].success) => exit_code # Some(0)

(***************************************************************************)
(* Properties of extract_table.                                            *)
(***************************************************************************)
\* extract_table is about to be called for the table at the head of todo.
ExtractCall == prog = "extract" /\ pc = "loop" /\ todo # <<>>

\* The artifact path of the table at the head of todo.
HeadPath == [dir |-> Head(todo).schema,
             stem |-> <<Head(todo).schema, "_", Head(todo).table>>]

\* In the step just taken the call returned an outcome (the last of results').
Returned == Len(results') = Len(results) + 1

\* In the step just taken the call ended without success: it returned a
\* failure outcome, or an exception left it and ended the process.
CallFailed ==
    \/ uncaught' # None
    \/ Returned /\ ~results'[Len(results')].success

\* C11: a call of extract_table for a table that does not exist on the source
\* issues no query on the table and neither creates nor modifies the staged
\* artifact; what it returns has success = false; and when the source answers
\* the existence query it raises nothing and returns the not-found outcome,
\* after which the batch goes on.
C11_TableNotFound ==
    [][(ExtractCall /\ Head(todo) \notin pg_tables) =>
          /\ scanned' = scanned
          /\ exports' = exports
          /\ Returned => ~results'[Len(results')].success
          /\ (uncaught' = None /\ Returned
                /\ results'[Len(results')].error # "query failed") =>
                /\ results'[Len(results')] =
                      [success |-> FALSE, schema |-> Head(todo).schema,
                       table |-> Head(todo).table, error |-> "Table does not exist"]
                /\ pc' = "loop" /\ exit_code' = None]_vars

\* C11 witness: the first table of a batch does not exist; its outcome is the
\* not-found failure, the artifact of an earlier extraction is still in place,
\* no query was issued on the table, and the batch has gone on to extract the
\* next table.
C11_Witness ==
    /\ prog = "extract" /\ args.all /\ Len(results) = 2
    /\ [schema |-> "raw", table |-> "csv_customers"] \notin pg_tables
    /\ results[1].success = FALSE /\ results[1].error = "Table does not exist"
    /\ results[2].success
    /\ exports[[dir |-> "raw", stem |-> <<"raw", "_", "csv_customers">>]] = Some(PriorFile)
    /\ [schema |-> "raw", table |-> "csv_customers"] \notin scanned

\* C12: when a complete artifact of an earlier extraction is in place and a
\* new extract_table run for the same table fails (during the scan or during
\* the file write), the artifact path still holds that artifact afterwards.
C12_PriorArtifactKept ==
    [][(/\ ExtractCall
        /\ exports[HeadPath] # None /\ exports[HeadPath][1].complete
        /\ CallFailed) =>
          exports'[HeadPath] = exports[HeadPath]]_vars

(***************************************************************************)
(* Properties of load_csv_to_bigquery.                                     *)
(***************************************************************************)
\* load_csv_to_bigquery is about to be called: by main for --file/--table,
\* by load_schema_csvs for the next file of a schema, or by a library caller.
LoadCallPending ==
    \/ prog = "load" /\ pc = "single"
    \/ prog = "load" /\ pc = "schema_loop" /\ todo # <<>>
    \/ prog = "caller" /\ pc = "calls" /\ Len(results) < 2

\* The arguments of that call.
CallPath == IF prog = "caller" THEN args.csv_path
            ELSE IF pc = "single" THEN args.file[1] ELSE Head(todo).csv_path
CallRef ==
    IF prog = "caller"
    THEN [dataset |-> args.dataset_id, table |-> args.table_id]
    ELSE IF pc = "single"
    THEN [dataset |-> args.table[1][1], table |-> <<args.table[1][2]>>]
    ELSE [dataset |-> Head(todo).dataset_id, table |-> Head(todo).table_id]
CallFileExists == CallPath \in DOMAIN exports /\ exports[CallPath] # None

\* In the step just taken the call returned an outcome, and that outcome.
LoadReturned ==
    IF prog = "load" /\ pc = "schema_loop"
    THEN Len(schema_results') = Len(schema_results) + 1
    ELSE Len(results') = Len(results) + 1
LoadResult ==
    IF prog = "load" /\ pc = "schema_loop"
    THEN schema_results'[Len(schema_results')]
    ELSE results'[Len(results')]

\* C13: a call of load_csv_to_bigquery whose destination dataset does not
\* exist submits no load job and creates neither the dataset nor a table;
\* what it returns has success = false, and it is the dataset-not-found
\* outcome whenever the sink answered the dataset lookup.
C13_DatasetMissingFailsFast ==
    [][(LoadCallPending /\ CallFileExists /\ CallRef.dataset \notin bq_datasets) =>
          /\ jobs' = jobs
          /\ bq_datasets' = bq_datasets
          /\ bq_tables' = bq_tables
          /\ LoadReturned => ~LoadResult.success
          /\ (LoadReturned /\ LoadResult.error # "request failed") =>
                LoadResult = [success |-> FALSE, error |-> "Dataset not found"]]_vars

\* C13 witness: a single-file load into a dataset that does not exist has
\* returned the dataset-not-found outcome; no job, no dataset, no table.
C13_Witness ==
    /\ prog = "load" /\ args.file # None /\ args.table # None
    /\ results = <<[success |-> FALSE, error |-> "Dataset not found"]>>
    /\ jobs = <<>> /\ bq_datasets = {} /\ bq_tables = <<>>

\* C14: a load of an artifact that holds a bad record returns success = false
\* and leaves the destination tables exactly as they were, whether the call
\* replaces or appends.
C14_AllOrNothing ==
    [][(LoadCallPending /\ CallFileExists /\ exports[CallPath][1].bad) =>
          /\ bq_tables' = bq_tables
          /\ LoadReturned => ~LoadResult.success]_vars

\* C14 witness: an append of a file with a bad row onto a table of the same
\* schema was submitted and rejected; the table holds what it held.
C14_Witness ==
    /\ prog = "caller" /\ args.write_disposition = "WRITE_APPEND"
    /\ exports[args.csv_path] = Some(BadFile)
    /\ Len(jobs) = 1 /\ jobs[1].write_disposition = "WRITE_APPEND"
    /\ results = <<[success |-> FALSE, error |-> "job rejected"]>>
    /\ bq_tables = [ref \in {[dataset |-> args.dataset_id, table |-> args.table_id]}
                      |-> [num_rows |-> 1, schema_fields |-> 1]]

\* The library caller has made both calls and both succeeded.
BothSucceeded ==
    /\ prog = "caller" /\ Len(results) = 2
    /\ results[1].success /\ results[2].success

\* C15: two successive WRITE_TRUNCATE loads of the same artifact into the
\* same table report the same row count and the same schema field count,
\* whatever the table held before.
C15_ReplaceIdempotent ==
    (BothSucceeded /\ args.write_disposition = "WRITE_TRUNCATE") =>
        /\ results[1].rows_loaded = results[2].rows_loaded
        /\ results[1].schema_fields = results[2].schema_fields

\* C15 witness: both replace loads of a one-row, two-column file succeeded.
C15_Witness ==
    /\ BothSucceeded /\ args.write_disposition = "WRITE_TRUNCATE"
    /\ exports[args.csv_path][1].rows = 1 /\ exports[args.csv_path][1].cols = 2
    /\ results[2].rows_loaded = 1 /\ results[2].schema_fields = 2
    /\ Len(jobs) = 2

\* C16: two successive WRITE_APPEND loads of the same N-row artifact into a
\* table that starts empty (the first load leaves N rows) leave 2N rows, and
\* the second outcome reports rows_loaded = 2N.
C16_AppendAccumulates ==
    (/\ BothSucceeded /\ args.write_disposition = "WRITE_APPEND"
     /\ results[1].rows_loaded = exports[args.csv_path][1].rows) =>
        LET N == exports[args.csv_path][1].rows
        IN /\ results[2].rows_loaded = 2 * N
           /\ bq_tables[[dataset |-> args.dataset_id, table |-> args.table_id]].num_rows
                 = 2 * N

\* C16 witness: one row appended twice to an empty table gives two rows.
C16_Witness ==
    /\ BothSucceeded /\ args.write_disposition = "WRITE_APPEND"
    /\ exports[args.csv_path][1].rows = 1
    /\ results[1].rows_loaded = 1 /\ results[2].rows_loaded = 2

\* C17: every successful outcome follows a load job, and its rows_loaded and
\* schema_fields are those of the destination table as it is once the job
\* has completed.
C17_ReadBack ==
    [][(LoadCallPending /\ LoadReturned /\ LoadResult.success) =>
          /\ Len(jobs') = Len(jobs) + 1
          /\ CallRef \in DOMAIN bq_tables'
          /\ LoadResult.rows_loaded = bq_tables'[CallRef].num_rows
          /\ LoadResult.schema_fields = bq_tables'[CallRef].schema_fields]_vars

\* C17 witness: a one-row file was appended to a table that held one row;
\* the outcome reports the two rows of the table, not the one row sent.
C17_Witness ==
    /\ prog = "caller" /\ args.write_disposition = "WRITE_APPEND"
    /\ Len(results) = 1 /\ results[1].success
    /\ exports[args.csv_path][1].rows = 1
    /\ results[1].rows_loaded = 2

(***************************************************************************)
(* Properties of the batch modes of the Loader.                            *)
(***************************************************************************)
\* C18: the artifact extract_table writes for (namespace, name) as
\* {namespace}_{name}.csv is mapped back by load_schema_csvs for that
\* namespace to exactly `name`, also when the namespace or the name holds
\* underscores or the name begins with the namespace prefix; and every file
\* of a configured schema is loaded under its configured table name.
C18_NamingRoundTrip ==
    /\ (prog = "naming" /\ pc = "exited") =>
          /\ Len(todo) = 1
          /\ todo[1].table_id = args.table
    /\ (prog = "load" /\ pc = "schema_loop") =>
          \A i \in DOMAIN todo :
              \E k \in DOMAIN TABLES_TO_EXTRACT[todo[i].csv_path.dir] :
                 LET t == TABLES_TO_EXTRACT[todo[i].csv_path.dir][k]
                 IN /\ todo[i].csv_path.stem = <<todo[i].csv_path.dir, "_", t>>
                    /\ todo[i].table_id = <<t>>

\* C18 witness: the namespace "r_" and the name "r__", which begins with the
\* namespace prefix "r__", have made the round trip.
C18_Witness ==
    /\ prog = "naming" /\ pc = "exited"
    /\ args.schema = <<"r", "_">>
    /\ args.table = <<"r", "_", "_">>
    /\ todo[1].csv_path.stem = <<"r", "_", "_", "r", "_", "_">>
    /\ todo[1].table_id = <<"r", "_", "_">>

\* The schemas a batch run of the Loader was asked to load, and the staged
\* artifacts load_schema_csvs finds for them.
LoadBatchMode ==
    /\ prog = "load"
    /\ ~(args.file # None /\ args.table # None)
    /\ (args.schema # None \/ args.all)
SelectedSchemas == IF args.schema # None THEN {args.schema[1]} ELSE {"raw", "staging"}
SelectedArtifacts ==
    {p \in DOMAIN exports : /\ exports[p] # None
                            /\ p.dir \in SelectedSchemas
                            /\ p.dir \in export_dirs}

\* C19: a batch load attempts every artifact of every selected namespace and
\* ends with exactly one outcome per artifact, whatever subset of the loads
\* fails (missing dataset, rejected job, or sink client failure); a failure
\* in one namespace does not keep the later namespaces from being loaded.
C19_BatchLoadReturnsAllOutcomes ==
    (LoadBatchMode /\ pc = "exited") =>
        /\ Len(results) = Cardinality(SelectedArtifacts)
        /\ (\E i \in DOMAIN results : ~results[i].success) => exit_code # Some(0)

(***************************************************************************)
(* Properties of the batch mode of the Reconciliation Engine.              *)
(***************************************************************************)
\* C20: a batch reconciliation ends with exactly one report per configured
\* mapping, in configuration order, also after a table whose reconciliation
\* failed, and with a tally in which each report counts once as PASS or as
\* FAIL, so that passed + failed is the number of mappings.
C20_BatchReconcileTally ==
    (/\ prog = "reconcile" /\ pc = "exited"
     /\ ~(args.table # None /\ args.bq_table # None) /\ args.all) =>
        LET passed == Cardinality({i \in DOMAIN results_list :
                                      results_list[i].overall_status = "PASS"})
            failed == Cardinality({i \in DOMAIN results_list :
                                      results_list[i].overall_status = "FAIL"})
        IN /\ Len(results_list) = Len(TABLE_MAPPINGS)
           /\ \A i \in DOMAIN results_list :
                /\ results_list[i].pg_table = TABLE_MAPPINGS[i].pg
                /\ results_list[i].bq_table = TABLE_MAPPINGS[i].bq
           /\ passed + failed = Len(TABLE_MAPPINGS)

(***************************************************************************)
(* Properties of the Warehouse Validator (validate_table).                 *)
(***************************************************************************)
\* validate_table has got its table and has run to its end.
ValidateChecked ==
    prog = "validate" /\ pc = "exited" /\ table_obj # None /\ uncaught = None

\* C21: the 'Clustering active' check is true exactly when the table's
\* clustering column list is present and non-empty; a present but empty list
\* counts as not clustered.
C21_ClusteringActive ==
    ValidateChecked =>
        (vchecks.clustering_active <=>
            /\ table_obj[1].clustering_fields # None
            /\ table_obj[1].clustering_fields[1] # <<>>)

\* C22: validate_table returns True exactly when the table exists, its row
\* count is the caller's expected row count, its column count is the caller's
\* expected column count, and clustering is active.
C22_VerdictFromCallerExpectations ==
    (prog = "validate" /\ pc = "exited" /\ verdict # None) =>
        (verdict[1] <=>
            /\ table_obj # None
            /\ actual_rows[1] = args.expected_rows
            /\ table_obj[1].schema_fields = args.expected_cols
            /\ table_obj[1].clustering_fields # None)

\* C23: once the table is found, an error raised by the row-count query or
\* by the sample query is contained: validate_table still ends by returning
\* a boolean verdict, and nothing propagates out of it.
C23_CheckErrorContained ==
    (prog = "validate" /\ pc = "exited" /\ table_obj # None) =>
        (uncaught = None /\ verdict # None)

(***************************************************************************)
(* Properties of the source connections.                                   *)
(***************************************************************************)
\* C24: when extract_table or a source read of the Reconciliation Engine
\* (get_postgres_row_count, get_postgres_schema, get_postgres_sample) has
\* finished, by a return or by an exception, the source connection it opened
\* has been closed: no connection of a finished operation is still open.
C24_ConnectionsClosed ==
    prog \in {"extract", "reconcile"} => conn # Some("open")

(***************************************************************************)
(* Properties of the shape of a reconciliation report.                     *)
(***************************************************************************)
\* The fields of a check entry that holds a result.
ResultFields(name) ==
    CASE name = "row_count" -> {"postgres", "bigquery", "match"}
      [] name = "schema" -> {"postgres_columns", "bigquery_columns", "match",
                             "missing_in_bq", "extra_in_bq"}
      [] OTHER -> {"retrieved"}

\* C25: every report reconcile_table returned has exactly the checks
\* row_count, schema and sample_data, and each entry is either an error (the
\* error field and nothing else: no match flag, no counts) or a result (the
\* fields of its check, no error field), never a mixture.
C25_ReportShape ==
    \A rep \in Reports :
        /\ DOMAIN rep.checks = CheckNames
        /\ \A k \in DOMAIN rep.checks :
              \/ DOMAIN rep.checks[k] = {"error"}
              \/ DOMAIN rep.checks[k] = ResultFields(k)

\* A report in which one check could not complete and another one ran and
\* mismatched.
C25_Witness ==
    \E rep \in Reports : \E k1, k2 \in DOMAIN rep.checks :
        /\ HasError(rep.checks[k1])
        /\ HasMatch(rep.checks[k2]) /\ ~rep.checks[k2].match

(***************************************************************************)
(* Properties of a batch load that finds nothing to load.                  *)
(***************************************************************************)
\* The artifacts load_schema_csvs finds for a namespace.
CsvFilesOf(schema) == {p \in DOMAIN exports : p.dir = schema /\ exports[p] # None}

\* Every selected namespace is unknown, has no staging directory, or has a
\* directory without artifacts.
NothingToLoad ==
    \A schema \in SelectedSchemas :
        \/ schema \notin DOMAIN SCHEMA_MAPPING
        \/ schema \notin export_dirs
        \/ CsvFilesOf(schema) = {}

\* C26: a batch load whose selected namespaces are all unknown, without a
\* staging directory or without artifacts ends with an empty outcome list,
\* no load job submitted, and exit status 0.
C26_EmptyBatchExitsZero ==
    (LoadBatchMode /\ NothingToLoad /\ pc = "exited") =>
        /\ results = <<>>
        /\ jobs = <<>>
        /\ uncaught = None
        /\ exit_code = Some(0)

\* A batch load of a known namespace whose staging directory exists and is
\* empty has ended.
C26_Witness ==
    /\ LoadBatchMode /\ pc = "exited"
    /\ args.schema # None
    /\ args.schema[1] \in DOMAIN SCHEMA_MAPPING
    /\ args.schema[1] \in export_dirs
    /\ CsvFilesOf(args.schema[1]) = {}
    /\ exit_code = Some(0)

====
